---- MODULE Spec2Model ----
(***************************************************************************)
(* A model of the spending tracker: src/cli/spending-tracker.py (the       *)
(* currency-aware variant, "cli") and src/spending-tracker.py (the "root"  *)
(* variant).  One process invocation parses its arguments, loads the       *)
(* backing file, runs one command and, when the command mutates the        *)
(* collection, rewrites the whole file.                                    *)
(*                                                                         *)
(* Representation of Python values:                                        *)
(*   - an optional argument is None (<<>>) or Some(x) (<<x>>);             *)
(*   - amounts are integers (hundredths), so that "{:.2f}" is exact;       *)
(*   - a datetime is [day, tod] (tod = 0 is midnight); the stored text     *)
(*     "YYYY-MM-DD HH:MM:SS" is the tuple <<day, tod>>, "" is <<>>;        *)
(*   - a "YYYY-MM-DD" command-line text is a string of DayOf's domain;     *)
(*   - record ids are Python str; an argument that argparse converted with *)
(*     type=int is a Python int: PyStr/PyInt tag the two.                  *)
(***************************************************************************)
EXTENDS Integers, Sequences, FiniteSets, TLC

\* The number of records ever created in one behaviour.
MaxAdds == 2

None == <<>>
Some(x) == <<x>>

\* bool(x) for an optional text: None and the empty text are falsy.
IsTruthy(opt, empty) == opt # None /\ opt[1] # empty

PyStr(s) == [t |-> "str", v |-> s]
PyInt(n) == [t |-> "int", v |-> n]

\* a != b in Python, for a str a: an int never equals a str.
py_ne(a, b) == ~(b.t = "str" /\ b.v = a)

(***************************************************************************)
(* Dates.                                                                  *)
(***************************************************************************)
DayOf == ("2024-01-01" :> 1) @@ ("2024-01-02" :> 2)

\* datetime.strptime(s, "%Y-%m-%d") succeeds (no ValueError).
parses_ymd(s) == s \in DOMAIN DayOf

\* datetime.strptime(s, "%Y-%m-%d"): midnight of that day.
strptime_ymd(s) == [day |-> DayOf[s], tod |-> 0]

\* dt.strftime("%Y-%m-%d %H:%M:%S")
strftime(dt) == <<dt.day, dt.tod>>

\* datetime.strptime(s, "%Y-%m-%d %H:%M:%S")
strptime(s) == [day |-> s[1], tod |-> s[2]]

\* a < b on datetimes
dt_lt(a, b) == a.day < b.day \/ (a.day = b.day /\ a.tod < b.tod)

\* The values datetime.datetime.now() takes.
Nows == {[day |-> 1, tod |-> 1], [day |-> 2, tod |-> 1]}

\* The clock readings that can tell two loads of the file apart: now() is read
\* while loading only for a stored record whose date is empty.
LoadNows(f) ==
    IF \E i \in 1..Len(f.data) : f.data[i].date = <<>>
    THEN Nows
    ELSE {CHOOSE n \in Nows : TRUE}

\* str(uuid.uuid4()): the n-th identifier drawn, distinct from the earlier ones.
uuid4(n) == <<"u1", "u2", "u3", "u4", "u5", "u6">>[n]

\* The backing file: absent, or a JSON array of objects.
Absent == [exists |-> FALSE, data |-> <<>>]

Output(msg) == [msg |-> msg, lines |-> <<>>, total |-> <<>>]

Outcome(spendings, file, out, exit) ==
    [spendings |-> spendings, file |-> file, out |-> out, exit |-> exit]

(***************************************************************************)
(* src/cli/spending-tracker.py                                             *)
(***************************************************************************)
Spending(item, amount, currency, category, id, date, uuid, now) ==
    [id       |-> IF IsTruthy(id, "") THEN id[1] ELSE uuid,
     item     |-> item,
     amount   |-> amount,
     currency |-> currency,
     category |-> category,
     date     |-> IF IsTruthy(date, <<>>) THEN date[1] ELSE strftime(now)]

\* to_dict with the currency written under "category" as well.
to_dict_copied_key(s) ==
    [id       |-> s.id,
     item     |-> s.item,
     amount   |-> s.amount,
     currency |-> s.currency,
     category |-> s.currency,
     date     |-> s.date]

to_dict(s) ==
    [id       |-> s.id,
     item     |-> s.item,
     amount   |-> s.amount,
     currency |-> s.currency,
     category |-> s.category,
     date     |-> s.date]

load_spendings(file, uuid, now) ==
    IF file.exists
    THEN [i \in 1..Len(file.data) |->
            LET d == file.data[i]
            IN  Spending(d.item, d.amount, d.currency, d.category,
                         Some(d.id), Some(d.date), uuid, now)]
    ELSE <<>>

save_spendings(spendings) ==
    [exists |-> TRUE,
     data   |-> [i \in 1..Len(spendings) |-> to_dict(spendings[i])]]

\* append_spending that appends the new record twice.
append_spending_twice(spendings, item, amount, currency, category, date, uuid, now) ==
    LET spending == Spending(item, amount, currency, category, None, date, uuid, now)
        new      == Append(Append(spendings, spending), spending)
    IN  [spendings |-> new, file |-> save_spendings(new)]

append_spending(spendings, item, amount, currency, category, date, uuid, now) ==
    LET spending == Spending(item, amount, currency, category, None, date, uuid, now)
        new      == Append(spendings, spending)
    IN  [spendings |-> new, file |-> save_spendings(new)]

\* get_total_spendings with `=` for `+=`: the last amount of each currency.
RECURSIVE get_total_spendings_assign(_)
get_total_spendings_assign(spendings) ==
    IF spendings = <<>>
    THEN [c \in {} |-> 0]
    ELSE LET n     == Len(spendings)
             total == get_total_spendings_assign(SubSeq(spendings, 1, n - 1))
             s     == spendings[n]
             init  == IF s.currency \in DOMAIN total
                      THEN total
                      ELSE total @@ (s.currency :> 0)
         IN  [init EXCEPT ![s.currency] = s.amount]

RECURSIVE get_total_spendings(_)
get_total_spendings(spendings) ==
    IF spendings = <<>>
    THEN [c \in {} |-> 0]
    ELSE LET n     == Len(spendings)
             total == get_total_spendings(SubSeq(spendings, 1, n - 1))
             s     == spendings[n]
             init  == IF s.currency \in DOMAIN total
                      THEN total
                      ELSE total @@ (s.currency :> 0)
         IN  [init EXCEPT ![s.currency] = @ + s.amount]

\* The loop of overview: every record's date is parsed in place; a record
\* rejected by a supplied filter prints no line.
overview_shown(s, from_date, to_date, category) ==
    /\ ~(IsTruthy(category, "") /\ s.category # category[1])
    /\ ~(from_date # None /\ dt_lt(strptime(s.date), from_date[1]))
    /\ ~(to_date # None /\ dt_lt(to_date[1], strptime(s.date)))

overview_line(s) ==
    [item |-> s.item, amount |-> s.amount, currency |-> s.currency,
     category |-> s.category, date |-> strptime(s.date)]

overview(spendings, from_date, to_date, category) ==
    LET shown  == SelectSeq(spendings,
                      LAMBDA s : overview_shown(s, from_date, to_date, category))
        parsed == [i \in 1..Len(spendings) |->
                      [spendings[i] EXCEPT !.date = strptime(@)]]
    IN  [spendings |-> parsed,
         out       |-> [msg   |-> "overview",
                        lines |-> [i \in 1..Len(shown) |-> overview_line(shown[i])],
                        total |-> get_total_spendings(parsed)]]

\* delete_spending with `==` for `!=`: it keeps the matching records only.
delete_spending_keeps_match(spendings, spending_id) ==
    LET new == SelectSeq(spendings, LAMBDA s : ~py_ne(s.id, spending_id))
    IN  [spendings |-> new, file |-> save_spendings(new),
         out |-> Output("deleted")]

delete_spending(spendings, spending_id) ==
    LET new == SelectSeq(spendings, LAMBDA s : py_ne(s.id, spending_id))
    IN  [spendings |-> new, file |-> save_spendings(new),
         out |-> Output("deleted")]

\* The index of the first record with the id, 0 when there is none.
edit_index(spendings, spending_id) ==
    LET hits == {i \in 1..Len(spendings) : ~py_ne(spendings[i].id, spending_id)}
    IN  IF hits = {} THEN 0 ELSE CHOOSE i \in hits : \A j \in hits : i <= j

\* edit_spending testing `if amount:` for `if amount is not None:`.
edit_spending_truthy(spendings, file, spending_id, item, amount, currency, category) ==
    LET i == edit_index(spendings, spending_id)
    IN  IF i = 0
        THEN [spendings |-> spendings, file |-> file, out |-> Output("not found")]
        ELSE LET s   == spendings[i]
                 e   == [s EXCEPT
                           !.item     = IF item # None THEN item[1] ELSE @,
                           !.amount   = IF IsTruthy(amount, 0) THEN amount[1] ELSE @,
                           !.currency = IF currency # None THEN currency[1] ELSE @,
                           !.category = IF category # None THEN category[1] ELSE @]
                 new == [spendings EXCEPT ![i] = e]
             IN  [spendings |-> new, file |-> save_spendings(new),
                  out |-> Output("updated")]

edit_spending(spendings, file, spending_id, item, amount, currency, category) ==
    LET i == edit_index(spendings, spending_id)
    IN  IF i = 0
        THEN [spendings |-> spendings, file |-> file, out |-> Output("not found")]
        ELSE LET s   == spendings[i]
                 e   == [s EXCEPT
                           !.item     = IF item # None THEN item[1] ELSE @,
                           !.amount   = IF amount # None THEN amount[1] ELSE @,
                           !.currency = IF currency # None THEN currency[1] ELSE @,
                           !.category = IF category # None THEN category[1] ELSE @]
                 new == [spendings EXCEPT ![i] = e]
             IN  [spendings |-> new, file |-> save_spendings(new),
                  out |-> Output("updated")]

\* main_add reading the file again before it appends.
main_add_reloads(args, spendings, file, uuid, now) ==
    IF IsTruthy(args.date, "") /\ ~parses_ymd(args.date[1])
    THEN Outcome(spendings, file, Output("Invalid date format"), 1)
    ELSE LET date == IF IsTruthy(args.date, "")
                     THEN Some(strftime(strptime_ymd(args.date[1])))
                     ELSE None
             r    == append_spending(load_spendings(file, uuid, now), args.item,
                                     args.amount, args.currency, args.category,
                                     date, uuid, now)
         IN  Outcome(r.spendings, r.file, Output(""), 0)

\* __main__, after load_spendings: one operator per command.
main_add(args, spendings, file, uuid, now) ==
    IF IsTruthy(args.date, "") /\ ~parses_ymd(args.date[1])
    THEN Outcome(spendings, file, Output("Invalid date format"), 1)
    ELSE LET date == IF IsTruthy(args.date, "")
                     THEN Some(strftime(strptime_ymd(args.date[1])))
                     ELSE None
             r    == append_spending(spendings, args.item, args.amount,
                                     args.currency, args.category, date, uuid, now)
         IN  Outcome(r.spendings, r.file, Output(""), 0)

main_list(args, spendings, file) ==
    IF spendings # <<>>
    THEN IF \/ IsTruthy(args.date_from, "") /\ ~parses_ymd(args.date_from[1])
            \/ IsTruthy(args.date_to, "") /\ ~parses_ymd(args.date_to[1])
         THEN Outcome(spendings, file, Output("ValueError"), 1)
         ELSE LET from_date == IF IsTruthy(args.date_from, "")
                               THEN Some(strptime_ymd(args.date_from[1])) ELSE None
                  to_date   == IF IsTruthy(args.date_to, "")
                               THEN Some(strptime_ymd(args.date_to[1])) ELSE None
                  r         == overview(spendings, from_date, to_date, args.category)
              IN  Outcome(r.spendings, file, r.out, 0)
    ELSE Outcome(spendings, file, Output("No spendings recorded yet."), 0)

main_delete(args, spendings, file) ==
    IF spendings # <<>>
    THEN LET r == delete_spending(spendings, PyStr(args.id))
         IN  Outcome(r.spendings, r.file, r.out, 0)
    ELSE Outcome(spendings, file, Output("No spendings recorded yet."), 0)

main_edit(args, spendings, file) ==
    IF spendings # <<>>
    THEN LET r == edit_spending(spendings, file, PyStr(args.id), args.item,
                                args.amount, args.currency, args.category)
         IN  Outcome(r.spendings, r.file, r.out, 0)
    ELSE Outcome(spendings, file, Output("No spendings recorded yet."), 0)

main_help(spendings, file) == Outcome(spendings, file, Output("usage"), 1)

(***************************************************************************)
(* src/spending-tracker.py                                                 *)
(***************************************************************************)
root_Spending(item, amount, category, id, date, uuid, now) ==
    [id       |-> IF IsTruthy(id, "") THEN id[1] ELSE uuid,
     item     |-> item,
     amount   |-> amount,
     category |-> category,
     date     |-> IF IsTruthy(date, <<>>) THEN date[1] ELSE strftime(now)]

root_to_dict(s) ==
    [id       |-> s.id,
     item     |-> s.item,
     amount   |-> s.amount,
     category |-> s.category,
     date     |-> s.date]

root_load_spendings(file, uuid, now) ==
    IF file.exists
    THEN [i \in 1..Len(file.data) |->
            LET d == file.data[i]
            IN  root_Spending(d.item, d.amount, d.category,
                              Some(d.id), Some(d.date), uuid, now)]
    ELSE <<>>

root_save_spendings(spendings) ==
    [exists |-> TRUE,
     data   |-> [i \in 1..Len(spendings) |-> root_to_dict(spendings[i])]]

root_append_spending(spendings, item, amount, category, date, uuid, now) ==
    LET spending == root_Spending(item, amount, category, None, date, uuid, now)
        new      == Append(spendings, spending)
    IN  [spendings |-> new, file |-> root_save_spendings(new)]

RECURSIVE root_get_total_spendings(_)
root_get_total_spendings(spendings) ==
    IF spendings = <<>>
    THEN 0
    ELSE root_get_total_spendings(Tail(spendings)) + Head(spendings).amount

root_overview(spendings, currency_rate) ==
    [msg   |-> "overview",
     lines |-> [i \in 1..Len(spendings) |->
                  [item   |-> spendings[i].item,
                   amount |-> spendings[i].amount * currency_rate,
                   date   |-> spendings[i].date]],
     total |-> root_get_total_spendings(spendings) * currency_rate]

root_delete_spending(spendings, spending_id) ==
    LET new == SelectSeq(spendings, LAMBDA s : py_ne(s.id, spending_id))
    IN  [spendings |-> new, file |-> root_save_spendings(new),
         out |-> Output("deleted")]

\* argparse type=int on the delete command's id: the texts int() accepts.
int_of == ("7" :> 7)

root_parses_int(s) == s \in DOMAIN int_of

root_main_add(args, spendings, file, uuid, now) ==
    IF IsTruthy(args.date, "") /\ ~parses_ymd(args.date[1])
    THEN Outcome(spendings, file, Output("Invalid date format"), 1)
    ELSE LET date == IF IsTruthy(args.date, "")
                     THEN Some(strftime(strptime_ymd(args.date[1])))
                     ELSE None
             r    == root_append_spending(spendings, args.item, args.amount,
                                          args.category, date, uuid, now)
         IN  Outcome(r.spendings, r.file, Output(""), 0)

root_main_list(args, spendings, file) ==
    IF spendings # <<>>
    THEN Outcome(spendings, file, root_overview(spendings, args.currency_rate), 0)
    ELSE Outcome(spendings, file, Output("No spendings recorded yet."), 0)

\* parse_args runs before the tracker exists: a rejected id ends the process
\* with status 2 and nothing loaded.
root_main_delete(args, spendings, file) ==
    IF ~root_parses_int(args.id)
    THEN Outcome(<<>>, file, Output("usage"), 2)
    ELSE IF spendings # <<>>
         THEN LET r == root_delete_spending(spendings, PyInt(int_of[args.id]))
              IN  Outcome(r.spendings, r.file, r.out, 0)
         ELSE Outcome(spendings, file, Output("No spendings recorded yet."), 0)

(***************************************************************************)
(* Inputs.                                                                 *)
(***************************************************************************)
DateArgs == {None, Some(""), Some("2024-01-02"), Some("not-a-date")}

AddArgs ==
    { [item |-> v[1], amount |-> v[2], currency |-> v[3], category |-> v[4],
       date |-> d] :
        v \in { <<"Coffee", 350, "usd", "Food">>,
                <<"Lunch", 1200, "usd", "Other">>,
                <<"Refund", -200, "eur", "Food">> },
        d \in DateArgs }

FilterDates == {None, Some("2024-01-01"), Some("2024-01-02")}

ListArgs ==
    [date_from : FilterDates, date_to : FilterDates,
     category : {None, Some(""), Some("Food")}]

RootListArgs == [currency_rate : {1, 2}]

IdArgs == {uuid4(n) : n \in 1..MaxAdds} \cup {"7"}

EditArgs ==
    { [id |-> i, item |-> v[1], amount |-> v[2], currency |-> v[3],
       category |-> v[4]] :
        i \in IdArgs,
        v \in { <<None, Some(0), None, None>>,
                <<Some("Snack"), Some(999), Some("eur"), Some("")>>,
                <<None, None, None, None>> } }

(***************************************************************************)
(* State.  variant: which program runs; file: the backing file; nextId:    *)
(* how many identifiers uuid4 has drawn, plus one; last: the latest        *)
(* invocation (command, arguments, the collection in memory at exit, what  *)
(* was printed, the exit status).  procs and order belong to the           *)
(* two-process specification below.                                        *)
(***************************************************************************)
VARIABLES variant, file, nextId, last, procs, order

vars == <<variant, file, nextId, last, procs, order>>

Procs == {1, 2}

IdleProc == [pc |-> "idle", cmd |-> "", args |-> <<>>, loaded |-> <<>>,
             mem |-> <<>>, exit |-> 0, saved |-> FALSE, added |-> ""]

Init ==
    /\ variant \in {"cli", "root"}
    /\ file = Absent
    /\ nextId = 1
    /\ last = [cmd |-> "", args |-> <<>>, mem |-> <<>>, out |-> Output(""), exit |-> 0]
    /\ procs = [p \in Procs |-> IdleProc]
    /\ order = <<>>

\* One whole invocation: the outcome r of the command on the loaded collection.
Invoke(cmd, args, r, drew) ==
    /\ file' = r.file
    /\ last' = [cmd |-> cmd, args |-> args, mem |-> r.spendings,
                out |-> r.out, exit |-> r.exit]
    /\ nextId' = IF drew THEN nextId + 1 ELSE nextId
    /\ UNCHANGED <<variant, procs, order>>

Add ==
    /\ variant = "cli"
    /\ nextId <= MaxAdds
    /\ \E args \in AddArgs, now \in Nows :
          LET r == main_add(args, load_spendings(file, uuid4(nextId), now),
                            file, uuid4(nextId), now)
          IN  Invoke("add", args, r, r.exit = 0)

List ==
    /\ variant = "cli"
    /\ \E args \in ListArgs, now \in LoadNows(file) :
          Invoke("list", args,
                 main_list(args, load_spendings(file, uuid4(nextId), now), file),
                 FALSE)

Delete ==
    /\ variant = "cli"
    /\ \E id \in IdArgs, now \in LoadNows(file) :
          Invoke("delete", [id |-> id],
                 main_delete([id |-> id],
                             load_spendings(file, uuid4(nextId), now), file),
                 FALSE)

Edit ==
    /\ variant = "cli"
    /\ \E args \in EditArgs, now \in LoadNows(file) :
          Invoke("edit", args,
                 main_edit(args, load_spendings(file, uuid4(nextId), now), file),
                 FALSE)

Help ==
    \E now \in LoadNows(file) :
        Invoke("", <<>>,
               main_help(IF variant = "cli"
                         THEN load_spendings(file, uuid4(nextId), now)
                         ELSE root_load_spendings(file, uuid4(nextId), now),
                         file),
               FALSE)

RootAdd ==
    /\ variant = "root"
    /\ nextId <= MaxAdds
    /\ \E a \in AddArgs, now \in Nows :
          LET args == [item |-> a.item, amount |-> a.amount,
                       category |-> a.category, date |-> a.date]
              r    == root_main_add(args,
                          root_load_spendings(file, uuid4(nextId), now),
                          file, uuid4(nextId), now)
          IN  Invoke("add", args, r, r.exit = 0)

RootList ==
    /\ variant = "root"
    /\ \E args \in RootListArgs, now \in LoadNows(file) :
          Invoke("list", args,
                 root_main_list(args,
                     root_load_spendings(file, uuid4(nextId), now), file),
                 FALSE)

RootDelete ==
    /\ variant = "root"
    /\ \E id \in IdArgs, now \in LoadNows(file) :
          Invoke("delete", [id |-> id],
                 root_main_delete([id |-> id],
                     root_load_spendings(file, uuid4(nextId), now), file),
                 FALSE)

Next ==
    \/ Add
    \/ List
    \/ Delete
    \/ Edit
    \/ Help
    \/ RootAdd
    \/ RootList
    \/ RootDelete

Spec == Init /\ [][Next]_vars

(***************************************************************************)
(* Two invocations of the cli variant on one backing file.  Nothing locks  *)
(* the file, so the read of load_spendings and the write of save_spendings *)
(* of one process interleave with those of the other.  order lists the     *)
(* reads and writes in the order they happened.                            *)
(***************************************************************************)
OneRecordFile ==
    save_spendings(<<Spending("Coffee", 350, "usd", "Food", None, None,
                              uuid4(1), [day |-> 1, tod |-> 1])>>)

InitConc ==
    /\ variant = "cli"
    /\ \/ file = Absent /\ nextId = 1
       \/ file = OneRecordFile /\ nextId = 2
    /\ last = [cmd |-> "", args |-> <<>>, mem |-> <<>>, out |-> Output(""), exit |-> 0]
    /\ procs = [p \in Procs |-> IdleProc]
    /\ order = <<>>

\* parse_args and tracker.load_spendings() of an invocation of command cmd.
Start(p, cmd, args) ==
    /\ procs[p].pc = "idle"
    /\ \E now \in LoadNows(file) :
          LET loaded == load_spendings(file, uuid4(nextId), now)
          IN  procs' = [procs EXCEPT ![p] =
                           [@ EXCEPT !.pc = "loaded", !.cmd = cmd, !.args = args,
                                     !.loaded = loaded, !.mem = loaded]]
    /\ order' = Append(order, <<p, "load">>)
    /\ UNCHANGED <<variant, file, nextId, last>>

StartAdd(p) == \E a \in {a \in AddArgs : a.date = None} : Start(p, "add", a)

StartDelete(p) == Start(p, "delete", [id |-> uuid4(1)])

StartEdit(p) == \E a \in {a \in EditArgs : a.id = uuid4(1)} : Start(p, "edit", a)

\* The command on the collection loaded earlier, its save_spendings included.
Run(p) ==
    /\ procs[p].pc = "loaded"
    /\ \E now \in Nows :
          LET me    == procs[p]
              r     == CASE me.cmd = "add" ->
                              main_add(me.args, me.mem, file, uuid4(nextId), now)
                         [] me.cmd = "delete" -> main_delete(me.args, me.mem, file)
                         [] me.cmd = "edit" -> main_edit(me.args, me.mem, file)
              saved == \/ me.cmd = "add" /\ r.exit = 0
                       \/ r.out.msg \in {"deleted", "updated"}
              drew  == me.cmd = "add" /\ r.exit = 0
          IN  /\ file' = r.file
              /\ procs' = [procs EXCEPT ![p] =
                              [@ EXCEPT !.pc = "done", !.mem = r.spendings,
                                        !.exit = r.exit, !.saved = saved,
                                        !.added = IF drew THEN uuid4(nextId) ELSE ""]]
              /\ nextId' = IF drew THEN nextId + 1 ELSE nextId
              /\ order' = IF saved THEN Append(order, <<p, "save">>) ELSE order
    /\ UNCHANGED <<variant, last>>

NextConc ==
    \E p \in Procs :
        \/ StartAdd(p)
        \/ StartDelete(p)
        \/ StartEdit(p)
        \/ Run(p)

SpecConc == InitConc /\ [][NextConc]_vars

(***************************************************************************)
(* Vocabulary of the properties.                                           *)
(***************************************************************************)
Ids(data) == {data[i].id : i \in 1..Len(data)}

RECURSIVE SumOver(_, _)
SumOver(data, S) ==
    IF S = {}
    THEN 0
    ELSE LET i == CHOOSE j \in S : TRUE
         IN  data[i].amount + SumOver(data, S \ {i})

\* The sum of the amounts of the records of data with currency c.
SumIn(data, c) == SumOver(data, {i \in 1..Len(data) : data[i].currency = c})

SumAll(data) == SumOver(data, 1..Len(data))

Currencies(data) == {data[i].currency : i \in 1..Len(data)}

Without(data, id) == SelectSeq(data, LAMBDA d : d.id # id)

NoFilter == [date_from |-> None, date_to |-> None, category |-> None]

\* The collection a later invocation loads from the file.
Loaded(f) ==
    IF variant = "cli"
    THEN load_spendings(f, uuid4(nextId), CHOOSE n \in LoadNows(f) : TRUE)
    ELSE root_load_spendings(f, uuid4(nextId), CHOOSE n \in LoadNows(f) : TRUE)

\* What a List with no filter (and rate 1) prints for the file.
Listing(f) ==
    IF variant = "cli"
    THEN main_list(NoFilter, Loaded(f), f).out
    ELSE root_main_list([currency_rate |-> 1], Loaded(f), f).out

Wrote(l) ==
    \/ l.cmd = "add" /\ l.exit = 0
    \/ l.cmd \in {"delete", "edit"} /\ l.out.msg \in {"deleted", "updated"}

(***************************************************************************)
(* Properties.                                                             *)
(***************************************************************************)

\* C1: in both variants, `delete <id>` with the id of a stored record removes
\* that record: neither the collection in memory nor the file holds the id
\* afterwards, the other records are unchanged and in the same order, and a
\* following List shows one line less and a total reduced by the amount.
C1_DeleteRemovesRecord ==
    [][ (last'.cmd = "delete" /\ last'.args.id \in Ids(file.data)) =>
          LET id   == last'.args.id
              gone == CHOOSE i \in 1..Len(file.data) : file.data[i].id = id
              old  == Listing(file)
              new  == Listing(file')
          IN  /\ id \notin Ids(file'.data)
              /\ id \notin Ids(last'.mem)
              /\ file'.data = Without(file.data, id)
              /\ Len(new.lines) = Len(old.lines) - 1
              /\ IF variant = "cli"
                 THEN SumIn(file'.data, file.data[gone].currency)
                        = old.total[file.data[gone].currency] - file.data[gone].amount
                 ELSE SumAll(file'.data) = old.total - file.data[gone].amount
      ]_vars

\* The cli variant alone does what C1 says.
C1_cli_DeleteRemovesRecord ==
    [][ (variant = "cli" /\ last'.cmd = "delete"
           /\ last'.args.id \in Ids(file.data)) =>
          LET id   == last'.args.id
              gone == CHOOSE i \in 1..Len(file.data) : file.data[i].id = id
              old  == Listing(file)
              new  == Listing(file')
          IN  /\ id \notin Ids(file'.data)
              /\ id \notin Ids(last'.mem)
              /\ file'.data = Without(file.data, id)
              /\ Len(new.lines) = Len(old.lines) - 1
              /\ SumIn(file'.data, file.data[gone].currency)
                   = old.total[file.data[gone].currency] - file.data[gone].amount
      ]_vars

\* C2: a List with a category or date filter reports, per currency, the sum of
\* the amounts of exactly the records it shows.
C2_FilteredTotalIsSumOfShown ==
    (variant = "cli" /\ last.cmd = "list" /\ last.out.msg = "overview"
       /\ last.args # NoFilter) =>
        /\ DOMAIN last.out.total = Currencies(last.out.lines)
        /\ \A c \in DOMAIN last.out.total :
              last.out.total[c] = SumIn(last.out.lines, c)

\* C3: a List with no filter reports the sum of the amounts of all the stored
\* records, times the conversion rate (root variant); in the cli variant a
\* mapping whose keys are the currencies of the stored records, each with the
\* sum of the amounts of its records.
C3_UnfilteredTotal ==
    (last.cmd = "list" /\ last.out.msg = "overview") =>
        IF variant = "cli"
        THEN last.args = NoFilter =>
                /\ DOMAIN last.out.total = Currencies(file.data)
                /\ \A c \in Currencies(file.data) :
                      last.out.total[c] = SumIn(file.data, c)
        ELSE last.out.total = SumAll(file.data) * last.args.currency_rate

C3_Witness ==
    /\ variant = "cli"
    /\ last.cmd = "list" /\ last.out.msg = "overview" /\ last.args = NoFilter
    /\ Len(file.data) = 2
    /\ file.data[1].currency = file.data[2].currency
    /\ last.out.total[file.data[1].currency]
         = file.data[1].amount + file.data[2].amount

\* C4: an Edit of an existing record with only an amount supplied changes that
\* record's amount and nothing else: its other fields, the other records and
\* the order are unchanged, and the file holds exactly the updated collection.
C4_EditOnlyAmount ==
    [][ (last'.cmd = "edit" /\ last'.args.id \in Ids(file.data)
           /\ last'.args.amount # None /\ last'.args.item = None
           /\ last'.args.currency = None /\ last'.args.category = None) =>
          /\ Len(file'.data) = Len(file.data)
          /\ \A i \in 1..Len(file.data) :
                file'.data[i] =
                    IF file.data[i].id = last'.args.id
                    THEN [file.data[i] EXCEPT !.amount = last'.args.amount[1]]
                    ELSE file.data[i]
          /\ Len(last'.mem) = Len(file'.data)
          /\ \A i \in 1..Len(file'.data) :
                /\ last'.mem[i].id = file'.data[i].id
                /\ last'.mem[i].item = file'.data[i].item
                /\ last'.mem[i].amount = file'.data[i].amount
                /\ last'.mem[i].currency = file'.data[i].currency
                /\ last'.mem[i].category = file'.data[i].category
                /\ last'.mem[i].date = file'.data[i].date
      ]_vars

C4_Witness ==
    /\ last.cmd = "edit" /\ last.out.msg = "updated"
    /\ last.args.amount = Some(0) /\ last.args.item = None
    /\ last.args.currency = None /\ last.args.category = None
    /\ Len(file.data) = 2
    /\ file.data[2].id = last.args.id
    /\ file.data[2].amount = 0
    /\ file.data[2].item = "Lunch"

\* C5: starting from an absent file, the ids of the records in memory and in
\* the file are pairwise distinct after any sequence of invocations.
C5_IdsDistinct ==
    /\ Cardinality(Ids(file.data)) = Len(file.data)
    /\ Cardinality(Ids(last.mem)) = Len(last.mem)

C5_Witness ==
    /\ last.cmd = "edit" /\ last.out.msg = "updated"
    /\ Len(file.data) = 2
    /\ file.data[1].id # file.data[2].id

\* C6: after an invocation that wrote the file, a load in a later invocation
\* gives the records that were in memory, in the same order and with every
\* field equal; a record just added is the last one and has exactly the
\* fields it was created with.
C6_PersistLoadRoundTrip ==
    Wrote(last) =>
        /\ Loaded(file) = last.mem
        /\ last.cmd = "add" =>
              LET new == Loaded(file)[Len(file.data)]
              IN  /\ Len(file.data) >= 1
                  /\ new.id = uuid4(nextId - 1)
                  /\ new.item = last.args.item
                  /\ new.amount = last.args.amount
                  /\ new.category = last.args.category
                  /\ variant = "cli" => new.currency = last.args.currency
                  /\ IF IsTruthy(last.args.date, "")
                     THEN new.date = <<DayOf[last.args.date[1]], 0>>
                     ELSE new.date \in {<<n.day, n.tod>> : n \in Nows}

C6_Witness ==
    /\ variant = "cli"
    /\ last.cmd = "add" /\ last.exit = 0
    /\ Len(file.data) = 2
    /\ last.args.date = Some("2024-01-02")
    /\ Loaded(file)[2].item = last.args.item
    /\ Loaded(file)[2].currency = "eur"
    /\ Loaded(file)[2].category = "Food"

C8_BadDateWritesNothing ==
    [][ (last'.cmd = "add" /\ last'.args.date # None
           /\ ~parses_ymd(last'.args.date[1])) =>
          /\ file' = file
          /\ last'.exit # 0
          /\ last'.out.msg = "Invalid date format"
      ]_vars

\* A record passes the filters of C10.
C10_Accepts(d, args) ==
    /\ args.category # None => d.category = args.category[1]
    /\ args.date_from # None =>
          ~dt_lt([day |-> d.date[1], tod |-> d.date[2]],
                 [day |-> DayOf[args.date_from[1]], tod |-> 0])
    /\ args.date_to # None =>
          ~dt_lt([day |-> DayOf[args.date_to[1]], tod |-> 0],
                 [day |-> d.date[1], tod |-> d.date[2]])

\* C10: the filtering List shows a record if and only if every supplied filter
\* accepts it (category equal to the filter, timestamp within the inclusive
\* bounds), and the records shown keep their insertion order.
C10_ShownIffAccepted ==
    (variant = "cli" /\ last.cmd = "list" /\ last.out.msg = "overview") =>
        LET accepted == SelectSeq(file.data, LAMBDA d : C10_Accepts(d, last.args))
        IN  /\ Len(last.out.lines) = Len(accepted)
            /\ \A i \in 1..Len(accepted) :
                  /\ last.out.lines[i].item = accepted[i].item
                  /\ last.out.lines[i].amount = accepted[i].amount
                  /\ last.out.lines[i].category = accepted[i].category
                  /\ last.out.lines[i].currency = accepted[i].currency

\* C10 for a category filter that is not the empty text.
C10_ShownIffAccepted_NonEmptyCategory ==
    (variant = "cli" /\ last.cmd = "list" /\ last.args.category # Some("")) =>
        C10_ShownIffAccepted

\* C8 for a --date value that is not the empty text.
C8_BadDateWritesNothing_NonEmptyDate ==
    [][ (last'.cmd = "add" /\ IsTruthy(last'.args.date, "")
           /\ ~parses_ymd(last'.args.date[1])) =>
          /\ file' = file
          /\ last'.exit # 0
          /\ last'.out.msg = "Invalid date format"
      ]_vars

\* C9: two concurrent invocations are not serialized.  When both load before
\* either writes and both write, the file is the collection written by the
\* one that writes last, and a record the other one added is not in it.
C9_LastWriterWins ==
    (/\ \A p \in Procs : procs[p].pc = "done" /\ procs[p].saved
     /\ Len(order) = 4
     /\ order[1][2] = "load" /\ order[2][2] = "load") =>
        LET w == order[4][1]
            o == order[3][1]
        IN  /\ file = save_spendings(procs[w].mem)
            /\ Len(file.data) <= Len(procs[w].loaded) + 1
            /\ procs[o].added # "" => procs[o].added \notin Ids(file.data)

C9_Witness ==
    /\ \A p \in Procs :
          procs[p].pc = "done" /\ procs[p].cmd = "add" /\ procs[p].exit = 0
    /\ order[1][2] = "load" /\ order[2][2] = "load"
    /\ procs[order[3][1]].added \notin Ids(file.data)
    /\ procs[order[4][1]].added \in Ids(file.data)

====
